---- MODULE Spec2Model ----
(***************************************************************************)
(* Run orchestration of the wing segmenter: the `segment` command builds   *)
(* a Segmenter (run identity, output layout) and calls process_dataset,    *)
(* which scans the dataset, decides whether to skip, writes the run        *)
(* descriptor, drives the worker pool and finalizes.                       *)
(*                                                                         *)
(* The file system (descriptor, segmentation table, mask artifacts per     *)
(* output directory) persists across invocations; everything else is the   *)
(* state of the invocation in progress.                                    *)
(*                                                                         *)
(* The functions the command is built from (validation, run identity,      *)
(* dataset fingerprint, output layout, crops, background compositing) and  *)
(* the scan-runs command have specifications of their own, each applying   *)
(* the function once to arguments drawn from a bounded set.                *)
(***************************************************************************)
EXTENDS Integers, Sequences, FiniteSets, TLC

\* ---------------------------------------------------------------- bounds
MaxImages == 2      \* image files the invocations of one behaviour list in all
MaxWorkers == 2     \* num_workers: 1..MaxWorkers
MaxRuns == 2        \* consecutive invocations of the segment command
MaxPixels == 2      \* pixels of the images handed to remove_background
MaxWidth == 5       \* width of the one-row images handed to the crop step
MaxRunDirs == 3     \* run directories scan_runs finds
MaxDetections == 2  \* detections the detector returns for one image

\* ------------------------------------------------------------- constants
None == "None"

NAMESPACE_UUID == "00000000-0000-0000-0000-000000000000"

valid_extensions == {".jpg", ".jpeg", ".png", ".tif", ".tiff", ".bmp"}

ERRORS_MESSAGE == "One or more images failed during processing."

\* ------------------------------------------------------------ the dataset
\* The dataset directory holds one file that is not an image and the image
\* files 1..n; extensions come in mixed case as os.walk reports them.
Extensions == <<".jpg", ".PNG", ".tif", ".JPEG", ".bmp", ".TIFF">>

lower(ext) ==
    CASE ext = ".PNG"  -> ".png"
      [] ext = ".JPEG" -> ".jpeg"
      [] ext = ".TIFF" -> ".tiff"
      [] OTHER         -> ext

DatasetFiles(n) ==
    {[id |-> 0, ext |-> ".txt"]}
        \cup {[id |-> i, ext |-> Extensions[((i - 1) % Len(Extensions)) + 1]] : i \in 1..n}

\* segmenter.py 85-91: the files whose lower-cased name ends with a valid
\* extension
ImagePaths(n) == {f.id : f \in {g \in DatasetFiles(n) : lower(g.ext) \in valid_extensions}}

\* metadata_manager.py 23-42: digest of every file's path and size, files in
\* sorted order (the digest is taken to be collision free)
get_dataset_hash(n) == <<"md5", [i \in 1..(n + 1) |-> <<"/data/ds", i - 1>>]>>

\* ------------------------------------------------------------ the config
\* The argparse namespace handed to Segmenter; crops by class are asked for
\* and the other options this specification does not vary keep their
\* command-line defaults.  An option
\* that takes integers holds the tuple of the integers given, the empty tuple
\* when the option is absent.
Config(n, bg_full, workers, force, custom, base) ==
    [dataset                |-> n,
     size                   |-> <<>>,
     resize_mode            |-> None,
     padding_color          |-> None,
     interpolation          |-> "area",
     bbox_padding           |-> <<>>,
     num_workers            |-> workers,
     save_intermediates     |-> FALSE,
     visualize_segmentation |-> FALSE,
     force                  |-> force,
     crop_by_class          |-> TRUE,
     remove_background      |-> FALSE,
     remove_bg_full         |-> bg_full,
     background_color       |-> None,
     sam_model              |-> "facebook/sam-vit-base",
     yolo_model             |-> "yolov8m",
     device                 |-> "cpu",
     custom_output_dir      |-> custom,
     output_dir             |-> base]

\* cli.py 50-51, 107-109: the two placement options are mutually exclusive
Placements == {<<"/out", None>>, <<None, "/runs">>, <<None, None>>}

\* Invocations on one dataset directory whose content may change in
\* between, with and without force, into the default location or a custom
\* root; full-image background removal is requested, so that every step of
\* the per-image pipeline runs.
Configs ==
    {Config(n, TRUE, w, f, c, None) :
        n \in 0..MaxImages, w \in 1..MaxWorkers, f \in BOOLEAN, c \in {None, "/out"}}

\* Invocations that differ in dataset content, in a hashed parameter and in
\* placement policy.
PlacementConfigs ==
    {Config(n, b, 1, FALSE, p[1], p[2]) :
        n \in 0..MaxImages, b \in BOOLEAN, p \in Placements}

\* segmenter.py 37
BackgroundColor(config) ==
    IF config.remove_background \/ config.remove_bg_full
    THEN config.background_color ELSE None

\* segmenter.py 45-53: one value is the side of a square, two are width and
\* height; no size leaves both unset
Width(size) == IF size = <<>> THEN <<>> ELSE <<size[1]>>

Height(size) == IF size = <<>> THEN <<>> ELSE <<size[Len(size)]>>

\* segmenter.py 56-72
ParametersForHash(config) ==
    [dataset_hash           |-> get_dataset_hash(config.dataset),
     sam_model_name         |-> config.sam_model,
     yolo_model_name        |-> config.yolo_model,
     resize_mode            |-> config.resize_mode,
     size                   |-> config.size,
     width                  |-> Width(config.size),
     height                 |-> Height(config.size),
     padding_color          |-> IF config.resize_mode = "pad" THEN config.padding_color ELSE None,
     interpolation          |-> IF config.size # <<>> THEN config.interpolation ELSE None,
     save_intermediates     |-> config.save_intermediates,
     visualize_segmentation |-> config.visualize_segmentation,
     crop_by_class          |-> config.crop_by_class,
     remove_background      |-> config.remove_background,
     remove_bg_full         |-> config.remove_bg_full,
     background_color       |-> BackgroundColor(config)]

\* metadata_manager.py 19-21: json.dumps(sort_keys=True) then uuid5 under the
\* fixed namespace; the name-based identifier is taken to be collision free
generate_uuid(parameters) ==
    <<"uuid5", NAMESPACE_UUID,
      <<parameters.background_color, parameters.crop_by_class,
        parameters.dataset_hash, parameters.height, parameters.interpolation,
        parameters.padding_color, parameters.remove_background,
        parameters.remove_bg_full, parameters.resize_mode,
        parameters.sam_model_name, parameters.save_intermediates,
        parameters.size, parameters.visualize_segmentation,
        parameters.width, parameters.yolo_model_name>>>>

\* path_manager.py 11-24: custom root verbatim, else <base>/<name>_<uuid>,
\* else <parent of the dataset>/<name>_<uuid>
setup_paths(config, run_uuid) ==
    IF config.custom_output_dir # None
    THEN <<config.custom_output_dir>>
    ELSE IF config.output_dir # None
         THEN <<config.output_dir, "ds", run_uuid>>
         ELSE <<"/data", "ds", run_uuid>>

\* segmenter.py 22-79
Segmenter(config) ==
    [config              |-> config,
     force               |-> config.force,
     num_workers         |-> config.num_workers,
     parameters_for_hash |-> ParametersForHash(config),
     run_uuid            |-> generate_uuid(ParametersForHash(config)),
     output_dir          |-> setup_paths(config, generate_uuid(ParametersForHash(config)))]

\* the status a run that skipped its first write discipline would store
InitialRunStatusCompleted == [completed |-> TRUE, errors |-> None]

\* segmenter.py 128-133
InitialRunStatus == [completed |-> FALSE, errors |-> None]

\* segmenter.py 108-134 (of run_parameters the entries this specification
\* varies or names; run_hardware, the package version and the elapsed time are
\* left out: nothing reads them back)
InitialMetadata(segmenter, paths) ==
    [dataset_hash   |-> segmenter.parameters_for_hash.dataset_hash,
     num_images     |-> Cardinality(paths),
     run_parameters |-> [sam_model_name  |-> segmenter.config.sam_model,
                         yolo_model_name |-> segmenter.config.yolo_model,
                         remove_bg_full  |-> segmenter.config.remove_bg_full],
     completed      |-> InitialRunStatus.completed,
     errors         |-> InitialRunStatus.errors]

\* the scan result is never taken to be empty
NoImagesNever(paths) == FALSE

\* segmenter.py 93
NoImages(paths) == paths = {}

\* the skip test with the polarity of force inverted
ExistingCompletedForced(segmenter, files) ==
    /\ segmenter.output_dir \in DOMAIN files
    /\ segmenter.force
    /\ files[segmenter.output_dir].completed

\* the skip test without the look at the stored status
ExistingDescriptor(segmenter, files) ==
    /\ segmenter.output_dir \in DOMAIN files
    /\ ~segmenter.force

\* segmenter.py 99-102: the descriptor exists, force is off and the stored
\* status says completed
ExistingCompleted(segmenter, files) ==
    /\ segmenter.output_dir \in DOMAIN files
    /\ ~segmenter.force
    /\ files[segmenter.output_dir].completed

\* the except clause lets the exception through as it is
process_image_reraise(e) == e

\* image_processor.py 133-135: whatever the pipeline raises leaves the task
\* as an ImageProcessingError
process_image_except(e) == "ImageProcessingError"

\* the exceptions the steps of the pipeline raise (cv2, numpy, attribute and
\* value errors, I/O errors)
PipelineExceptions == {"cv2.error", "AttributeError", "OSError"}

\* The class vocabulary (id -> name), cut down to the background and two
\* classes.
CLASSES == (0 :> "background") @@ (1 :> "forewing") @@ (2 :> "hindwing")

\* image_processor.py 90-96: the class names found in a saved mask; the
\* images studied that have a detection show a forewing on the background
classes_detected == {"background", "forewing"}

\* metadata_manager.py 74-78: the image and one 0/1 flag for each class
entry(image_path, classes_present) ==
    ("image" :> image_path)
        @@ [class_name \in {CLASSES[class_id] : class_id \in DOMAIN CLASSES} |->
                IF class_name \in classes_present THEN 1 ELSE 0]

\* the append of a thread that read the list before another thread's append
\* landed
update_segmentation_info_stale(info, image_path, classes_present) ==
    <<entry(image_path, classes_present)>>

\* metadata_manager.py 65-80: one entry is built and appended; list.append
\* is a single step of the interpreter
update_segmentation_info(info, image_path, classes_present) ==
    Append(info, entry(image_path, classes_present))

\* the export guard off by one
HasSeveralRows(info) == Len(info) > 1

\* segmenter.py 162
HasRows(info) == info # <<>>

\* the final status ignores the failure flag
RunCompletedAlways(errors) == TRUE

\* segmenter.py 169
RunCompleted(errors) == ~errors

\* cli.py 116-120: an exception that leaves process_dataset ends the process
\* with status 1; the value process_dataset returns is dropped and main
\* returns
ExitStatus(position, returned) == IF position = "raised" THEN 1 ELSE 0


\* ------------------------------------------------------------- the state
VARIABLES
    metadata_json,      \* file system: output dir -> persisted descriptor
    segmentation_csv,   \* file system: output dir -> exported rows
    masks,              \* file system: output dir -> images with a saved mask
    crops,              \* file system: output dir -> images with saved crops
    runs,               \* finished invocations of the command
    pc,                 \* position of the main thread
    self,               \* the Segmenter of the invocation in progress
    image_paths,        \* process_dataset: the discovered images
    errors_occurred,    \* process_dataset: local flag
    metadata,           \* self.metadata
    segmentation_info,  \* self.segmentation_info
    futures,            \* image -> state of its task
    pending,            \* futures as_completed has not yet yielded
    exception,          \* exception leaving the as_completed loop
    ret,                \* what process_dataset returned
    exit_code,          \* exit status of the last finished command
    before,             \* history: the file system when the command started
    writes,             \* history: descriptor writes of this invocation
    listed,             \* history: images listed by the invocations so far
    outcome,            \* history: image -> how its task ended
    call                \* the function under study: its arguments and result

vars == <<metadata_json, segmentation_csv, masks, crops, runs, pc, self, image_paths,
          errors_occurred, metadata, segmentation_info, futures, pending,
          exception, ret, exit_code, before, writes, listed, outcome, call>>

fs == <<metadata_json, segmentation_csv, masks, crops>>

Put(f, k, v) == [x \in DOMAIN f \cup {k} |-> IF x = k THEN v ELSE f[x]]

Empty == <<>>

\* no function of the helper modules is under study
NoCall == [op |-> "none"]

Init ==
    /\ metadata_json = Empty
    /\ segmentation_csv = Empty
    /\ masks = Empty
    /\ crops = Empty
    /\ runs = 0
    /\ pc = "idle"
    /\ self = Segmenter(Config(0, FALSE, 1, FALSE, None, None))
    /\ image_paths = {}
    /\ errors_occurred = FALSE
    /\ metadata = None
    /\ segmentation_info = <<>>
    /\ futures = Empty
    /\ pending = {}
    /\ exception = None
    /\ ret = None
    /\ exit_code = None
    /\ before = fs
    /\ writes = 0
    /\ listed = 0
    /\ outcome = Empty
    /\ call = NoCall

\* ------------------------------------------------------- the main thread
\* cli.py 116-119 and segmenter.py 22-79: the command builds a Segmenter
Segment(configs, images) ==
    /\ pc = "idle"
    /\ runs < MaxRuns
    /\ \E config \in configs :
         /\ listed + config.dataset <= images
         /\ listed' = listed + config.dataset
         /\ self' = Segmenter(config)
    /\ pc' = "scan"
    /\ image_paths' = {}
    /\ errors_occurred' = FALSE
    /\ metadata' = None
    /\ segmentation_info' = <<>>
    /\ futures' = Empty
    /\ pending' = {}
    /\ exception' = None
    /\ ret' = None
    /\ before' = fs
    /\ writes' = 0
    /\ outcome' = Empty
    /\ UNCHANGED <<fs, runs, exit_code, call>>

\* segmenter.py 82-91
Scan ==
    /\ pc = "scan"
    /\ image_paths' = ImagePaths(self.config.dataset)
    /\ pc' = "scanned"
    /\ UNCHANGED <<fs, runs, self, errors_occurred, metadata, segmentation_info,
                   futures, pending, exception, ret, exit_code, before, writes,
                   outcome, listed, call>>

\* segmenter.py 93-96
EmptyDataset ==
    /\ pc = "scanned"
    /\ NoImages(image_paths)
    /\ errors_occurred' = TRUE
    /\ ret' = TRUE
    /\ pc' = "returned"
    /\ UNCHANGED <<fs, runs, self, image_paths, metadata, segmentation_info,
                   futures, pending, exception, exit_code, before, writes,
                   outcome, listed, call>>

\* segmenter.py 98-105
SkipExisting ==
    /\ pc = "scanned"
    /\ ~NoImages(image_paths)
    /\ ExistingCompleted(self, metadata_json)
    /\ ret' = errors_occurred
    /\ pc' = "returned"
    /\ UNCHANGED <<fs, runs, self, image_paths, errors_occurred, metadata,
                   segmentation_info, futures, pending, exception, exit_code,
                   before, writes, outcome, listed, call>>

\* segmenter.py 107-136
InitMetadata ==
    /\ pc = "scanned"
    /\ ~NoImages(image_paths)
    /\ ~ExistingCompleted(self, metadata_json)
    /\ metadata' = InitialMetadata(self, image_paths)
    /\ metadata_json' = Put(metadata_json, self.output_dir, metadata')
    /\ writes' = writes + 1
    /\ pc' = "submit"
    /\ UNCHANGED <<segmentation_csv, masks, crops, runs, self, image_paths,
                   errors_occurred, segmentation_info, futures, pending,
                   exception, ret, exit_code, before, outcome, listed, call>>

\* segmenter.py 139-140
Submit ==
    /\ pc = "submit"
    /\ futures' = [i \in image_paths |-> "pending"]
    /\ pending' = image_paths
    /\ pc' = "drain"
    /\ UNCHANGED <<fs, runs, self, image_paths, errors_occurred, metadata,
                   segmentation_info, exception, ret, exit_code, before, writes,
                   outcome, listed, call>>

\* ------------------------------------------------------ the worker pool
Running ==
    {i \in DOMAIN futures : futures[i] \in {"running", "masked", "recorded", "unmasked"}}

\* the futures that have left the queue, done or not
Started == {i \in DOMAIN futures : futures[i] # "pending"}

\* segmenter.py 143: the futures as_completed can yield, those that are done
Finished ==
    {i \in DOMAIN futures :
        futures[i] \notin {"pending", "running", "masked", "recorded", "unmasked"}}

\* segmenter.py 139: at most num_workers tasks run at a time
TaskStart(i) ==
    /\ pc = "drain"
    /\ futures[i] = "pending"
    /\ Cardinality(Running) < self.num_workers
    /\ futures' = [futures EXCEPT ![i] = "running"]
    /\ UNCHANGED <<fs, runs, pc, self, image_paths, errors_occurred, metadata,
                   segmentation_info, pending, exception, ret, exit_code, before,
                   writes, outcome, listed, call>>

\* the unreadable image treated as a failure of the task
TaskUnreadableRaises(i) ==
    /\ pc = "drain"
    /\ futures[i] = "running"
    /\ futures' = [futures EXCEPT ![i] = "ImageProcessingError"]
    /\ outcome' = Put(outcome, i, "unreadable")
    /\ UNCHANGED <<fs, runs, pc, self, image_paths, errors_occurred, metadata,
                   segmentation_info, pending, exception, ret, exit_code, before,
                   writes, listed, call>>

\* image_processor.py 24-27: the image cannot be read; the task returns
TaskUnreadable(i) ==
    /\ pc = "drain"
    /\ futures[i] = "running"
    /\ futures' = [futures EXCEPT ![i] = "returned"]
    /\ outcome' = Put(outcome, i, "unreadable")
    /\ UNCHANGED <<fs, runs, pc, self, image_paths, errors_occurred, metadata,
                   segmentation_info, pending, exception, ret, exit_code, before,
                   writes, listed, call>>

\* image_processor.py 29-80: resize, detect, generate the mask and save it
TaskSaveMask(i) ==
    /\ pc = "drain"
    /\ futures[i] = "running"
    /\ futures' = [futures EXCEPT ![i] = "masked"]
    /\ masks' = Put(masks, self.output_dir,
                    (IF self.output_dir \in DOMAIN masks
                     THEN masks[self.output_dir] ELSE {}) \cup {i})
    /\ UNCHANGED <<metadata_json, segmentation_csv, crops, runs, pc, self,
                   image_paths, errors_occurred, metadata, segmentation_info,
                   pending, exception, ret, exit_code, before, writes, outcome,
                   listed, call>>

\* the image without a detection left out of the row collection
TaskNoDetectionUnrecorded(i) ==
    /\ pc = "drain"
    /\ futures[i] = "running"
    /\ futures' = [futures EXCEPT ![i] = "unmasked"]
    /\ outcome' = Put(outcome, i, "no_detection")
    /\ UNCHANGED <<fs, runs, pc, self, image_paths, errors_occurred, metadata,
                   segmentation_info, pending, exception, ret, exit_code, before,
                   writes, listed, call>>

\* image_processor.py 62-65, 113-118: no result of the detector holds a box;
\* the loop saves nothing, the foreground mask stays empty ("unmasked") and
\* the row is appended with every class absent
TaskNoDetection(i) ==
    /\ pc = "drain"
    /\ futures[i] = "running"
    /\ futures' = [futures EXCEPT ![i] = "unmasked"]
    /\ segmentation_info' = update_segmentation_info(segmentation_info, i, {})
    /\ outcome' = Put(outcome, i, "no_detection")
    /\ UNCHANGED <<fs, runs, pc, self, image_paths, errors_occurred, metadata,
                   pending, exception, ret, exit_code, before, writes, listed,
                   call>>

\* image_processor.py 67-73, 163-203, 110-118: the mask generator raises
\* inside get_mask_SAM, which logs and returns None; no mask is saved and the
\* row is appended with every class absent.  The state it leaves is that of
\* TaskNoDetection but for the history, which notes the failure.
TaskMaskFailure(i) ==
    /\ pc = "drain"
    /\ futures[i] = "running"
    /\ futures' = [futures EXCEPT ![i] = "unmasked"]
    /\ segmentation_info' = update_segmentation_info(segmentation_info, i, {})
    /\ outcome' = Put(outcome, i, "mask_failed")
    /\ UNCHANGED <<fs, runs, pc, self, image_paths, errors_occurred, metadata,
                   pending, exception, ret, exit_code, before, writes, listed,
                   call>>

\* image_processor.py 82-118: the crops of the mask are saved when asked
\* for, then the row is appended
TaskRecord(i) ==
    /\ pc = "drain"
    /\ futures[i] = "masked"
    /\ futures' = [futures EXCEPT ![i] = "recorded"]
    /\ IF self.config.crop_by_class
       THEN crops' = Put(crops, self.output_dir,
                         (IF self.output_dir \in DOMAIN crops
                          THEN crops[self.output_dir] ELSE {}) \cup {i})
       ELSE UNCHANGED crops
    /\ segmentation_info' =
         update_segmentation_info(segmentation_info, i, classes_detected)
    /\ UNCHANGED <<metadata_json, segmentation_csv, masks, runs, pc, self,
                   image_paths, errors_occurred, metadata, pending, exception,
                   ret, exit_code, before, writes, outcome, listed, call>>

\* image_processor.py 120-131: full-image background removal, or the warning
\* that it is skipped, then return
TaskFinish(i) ==
    /\ pc = "drain"
    /\ futures[i] \in {"recorded", "unmasked"}
    /\ futures' = [futures EXCEPT ![i] = "returned"]
    /\ outcome' = Put(outcome, i, IF i \in DOMAIN outcome THEN outcome[i] ELSE "ok")
    /\ UNCHANGED <<fs, runs, pc, self, image_paths, errors_occurred, metadata,
                   segmentation_info, pending, exception, ret, exit_code, before,
                   writes, listed, call>>

\* image_processor.py 120-122: after the row only the full-image background
\* removal is left to run, and only over a foreground that is not empty
StepsLeft(segmenter, stage) ==
    stage \in {"running", "masked"}
        \/ (stage = "recorded" /\ segmenter.config.remove_bg_full)

\* image_processor.py 20-135: a step of the pipeline raises, before the mask
\* is saved ("running"), between the mask and the row ("masked") or after the
\* row ("recorded"); the except clause decides what the future holds
TaskRaise(i) ==
    /\ pc = "drain"
    /\ StepsLeft(self, futures[i])
    /\ \E e \in PipelineExceptions :
         futures' = [futures EXCEPT ![i] = process_image_except(e)]
    /\ outcome' = Put(outcome, i, futures[i])
    /\ UNCHANGED <<fs, runs, pc, self, image_paths, errors_occurred, metadata,
                   segmentation_info, pending, exception, ret, exit_code, before,
                   writes, listed, call>>

\* segmenter.py 143-151: as_completed yields a finished future; result()
\* re-raises what the task raised, and only ImageProcessingError is caught
Drain(i) ==
    /\ pc = "drain"
    /\ exception = None
    /\ i \in pending
    /\ i \in Finished
    /\ pending' = pending \ {i}
    /\ IF futures[i] = "returned"
       THEN UNCHANGED <<errors_occurred, metadata, exception>>
       ELSE IF futures[i] = "ImageProcessingError"
            THEN /\ errors_occurred' = TRUE
                 /\ metadata' = [metadata EXCEPT !.errors = ERRORS_MESSAGE]
                 /\ UNCHANGED exception
            ELSE /\ exception' = futures[i]
                 /\ UNCHANGED <<errors_occurred, metadata>>
    /\ UNCHANGED <<fs, runs, pc, self, image_paths, segmentation_info, futures,
                   ret, exit_code, before, writes, outcome, listed, call>>

\* segmenter.py 139-159: the with-block of the executor ends once every task
\* has finished; the loop has then yielded every future, or an exception
\* left it and the handler writes the descriptor and re-raises
PoolDone ==
    /\ pc = "drain"
    /\ Finished = DOMAIN futures
    /\ IF exception = None
       THEN /\ pending = {}
            /\ pc' = "save"
            /\ UNCHANGED <<metadata, metadata_json, writes>>
       ELSE /\ metadata' = [metadata EXCEPT !.completed = FALSE, !.errors = exception]
            /\ metadata_json' = Put(metadata_json, self.output_dir, metadata')
            /\ writes' = writes + 1
            /\ pc' = "raised"
    /\ UNCHANGED <<segmentation_csv, masks, crops, runs, self, image_paths,
                   errors_occurred, segmentation_info, futures, pending,
                   exception, ret, exit_code, before, outcome, listed, call>>

\* segmenter.py 161-164 and metadata_manager.py 82-92
SaveSegmentationInfo ==
    /\ pc = "save"
    /\ IF HasRows(segmentation_info)
       THEN segmentation_csv' = Put(segmentation_csv, self.output_dir, segmentation_info)
       ELSE UNCHANGED segmentation_csv
    /\ pc' = "finalize"
    /\ UNCHANGED <<metadata_json, masks, crops, runs, self, image_paths, errors_occurred,
                   metadata, segmentation_info, futures, pending, exception, ret,
                   exit_code, before, writes, outcome, listed, call>>

\* segmenter.py 166-181
Finalize ==
    /\ pc = "finalize"
    /\ metadata' = [metadata EXCEPT !.completed = RunCompleted(errors_occurred)]
    /\ metadata_json' = Put(metadata_json, self.output_dir, metadata')
    /\ writes' = writes + 1
    /\ ret' = errors_occurred
    /\ pc' = "returned"
    /\ UNCHANGED <<segmentation_csv, masks, crops, runs, self, image_paths,
                   errors_occurred, segmentation_info, futures, pending,
                   exception, exit_code, before, outcome, listed, call>>

\* cli.py 116-125: the command ends
Exit ==
    /\ pc \in {"returned", "raised"}
    /\ exit_code' = ExitStatus(pc, ret)
    /\ runs' = runs + 1
    /\ pc' = "idle"
    /\ UNCHANGED <<fs, self, image_paths, errors_occurred, metadata,
                   segmentation_info, futures, pending, exception, ret, before,
                   writes, outcome, listed, call>>

ProcessDataset ==
    \/ Scan \/ EmptyDataset \/ SkipExisting \/ InitMetadata \/ Submit
    \/ \E i \in DOMAIN futures :
         \/ TaskStart(i) \/ TaskUnreadable(i) \/ TaskSaveMask(i)
         \/ TaskNoDetection(i) \/ TaskRecord(i) \/ TaskFinish(i) \/ TaskRaise(i) \/ Drain(i)
    \/ PoolDone \/ SaveSegmentationInfo \/ Finalize

\* consecutive invocations on one dataset directory
Next == Segment(Configs, MaxImages) \/ ProcessDataset \/ Exit

Spec == Init /\ [][Next]_vars

\* consecutive invocations in which the mask generator can fail
NextMask ==
    \/ Segment(Configs, MaxImages)
    \/ ProcessDataset
    \/ \E i \in DOMAIN futures : TaskMaskFailure(i)
    \/ Exit

SpecMask == Init /\ [][NextMask]_vars

\* consecutive invocations under the three placement policies
NextPlacement == Segment(PlacementConfigs, MaxImages + 1) \/ ProcessDataset \/ Exit

SpecPlacement == Init /\ [][NextPlacement]_vars

\* segmenter.py 82-91: process_dataset is called again on the Segmenter the
\* invocation built.  The locals of the call start afresh; the attributes of
\* the Segmenter, the row collection among them, are those the call before
\* left (the collection is assigned in __init__ only, segmenter.py 38).
ProcessDatasetAgain ==
    /\ pc = "returned"
    /\ runs + 1 < MaxRuns
    /\ listed + self.config.dataset <= MaxImages
    /\ listed' = listed + self.config.dataset
    /\ runs' = runs + 1
    /\ pc' = "scan"
    /\ image_paths' = {}
    /\ errors_occurred' = FALSE
    /\ futures' = Empty
    /\ pending' = {}
    /\ exception' = None
    /\ ret' = None
    /\ before' = fs
    /\ writes' = 0
    /\ outcome' = Empty
    /\ UNCHANGED <<fs, self, metadata, segmentation_info, exit_code, call>>

\* invocations and repeated calls of process_dataset on one Segmenter
NextReuse ==
    \/ Segment(Configs, MaxImages)
    \/ ProcessDataset
    \/ ProcessDatasetAgain
    \/ Exit

SpecReuse == Init /\ [][NextReuse]_vars

\* ------------------------------------------------- command validation
\* What the options of the segment command can hold after parse_args: a size
\* is one or more integers of either sign, the choices are among those the
\* parser lists.
Sizes == {<<>>, <<0>>, <<-1>>, <<256>>, <<256, 128>>, <<256, 128, 64>>}

ArgSpace ==
    {[Config(1, bf, 1, FALSE, c, b) EXCEPT
        !.size = sz, !.resize_mode = rm, !.padding_color = pad,
        !.crop_by_class = cc, !.remove_background = rb,
        !.background_color = bc] :
        bf \in BOOLEAN, c \in {None, "/out"}, b \in {None, "/runs"},
        sz \in Sizes, rm \in {None, "distort", "pad"}, pad \in {None, "black"},
        cc \in BOOLEAN, rb \in BOOLEAN, bc \in {None, "white"}}

\* cli.py 84-113: the first check that fails ends the command through
\* parser.error; "ok" when every check passes
Validate(args) ==
    IF args.size # <<>> /\ Len(args.size) \notin {1, 2}
        THEN "--size must accept either one value or two values"
    ELSE IF args.size # <<>> /\ args.resize_mode = None
        THEN "--resize-mode must be specified when --size is provided"
    ELSE IF args.size = <<>> /\ args.resize_mode # None
        THEN "--resize-mode requires --size"
    ELSE IF args.size = <<>> /\ args.padding_color # None
        THEN "--padding-color requires --size"
    ELSE IF args.remove_background /\ ~args.crop_by_class
        THEN "--remove-crops-background requires --crop-by-class"
    ELSE IF args.background_color # None
            /\ ~(args.remove_background \/ args.remove_bg_full)
        THEN "--background-color requires background removal"
    ELSE IF args.custom_output_dir # None /\ args.output_dir # None
        THEN "cannot specify both --outputs-base-dir and --custom-output-dir"
    ELSE IF args.bbox_padding # <<>> /\ args.bbox_padding[1] < 0
        THEN "--bbox-padding must be a non-negative integer"
    ELSE "ok"

\* cli.py 82-120: main validates, then builds the Segmenter, whose
\* constructor creates the run directory; parser.error ends the process with
\* status 2 before that
Main ==
    /\ call = NoCall
    /\ \E args \in ArgSpace :
        call' = [op          |-> "main",
                 args        |-> args,
                 verdict     |-> Validate(args),
                 constructed |-> Validate(args) = "ok",
                 output_dir  |-> IF Validate(args) = "ok"
                                 THEN {Segmenter(args).output_dir} ELSE {}]

NextValidate ==
    Main /\ UNCHANGED <<fs, runs, pc, self, image_paths, errors_occurred,
                        metadata, segmentation_info, futures, pending, exception,
                        ret, exit_code, before, writes, listed, outcome>>

SpecValidate == Init /\ [][NextValidate]_vars

\* ------------------------------------------------------- run identity
\* The options that make up the parameters of a run, and the values each is
\* given here.
RunParameterFields ==
    {"size", "resize_mode", "padding_color", "interpolation", "sam_model",
     "yolo_model", "crop_by_class", "visualize_segmentation",
     "remove_background", "remove_bg_full", "background_color", "num_workers"}

FieldValues(f) ==
    CASE f = "size"             -> {<<>>, <<256>>, <<512>>, <<256, 128>>}
      [] f = "resize_mode"      -> {None, "distort", "pad"}
      [] f = "padding_color"    -> {None, "black", "white"}
      [] f = "interpolation"    -> {"area", "linear"}
      [] f = "sam_model"        -> {"facebook/sam-vit-base", "facebook/sam-vit-large"}
      [] f = "yolo_model"       -> {"yolov8m", "yolov8n"}
      [] f = "background_color" -> {None, "black", "white"}
      [] f = "num_workers"      -> 1..MaxWorkers
      [] OTHER                  -> BOOLEAN

\* the parameter sets the command accepts, with a resize target that can be
\* resized to, into the default location
RunConfigs ==
    {a \in ArgSpace :
        /\ Validate(a) = "ok"
        /\ \A k \in 1..Len(a.size) : a.size[k] > 0
        /\ a.custom_output_dir = None /\ a.output_dir = None}

\* segmenter.py 22-75: two Segmenters built over the same dataset from
\* parameter sets that differ in the one field f
Identify ==
    /\ call = NoCall
    /\ \E a \in RunConfigs, f \in RunParameterFields :
        \E v \in FieldValues(f) \ {a[f]} :
            /\ Validate([a EXCEPT ![f] = v]) = "ok"
            /\ call' = [op     |-> "generate_uuid",
                        a      |-> a,
                        b      |-> [a EXCEPT ![f] = v],
                        field  |-> f,
                        uuid_a |-> Segmenter(a).run_uuid,
                        uuid_b |-> Segmenter([a EXCEPT ![f] = v]).run_uuid]

NextIdentity ==
    Identify /\ UNCHANGED <<fs, runs, pc, self, image_paths, errors_occurred,
                            metadata, segmentation_info, futures, pending,
                            exception, ret, exit_code, before, writes, listed,
                            outcome>>

SpecIdentity == Init /\ [][NextIdentity]_vars

\* -------------------------------------------------- dataset fingerprint
\* A dataset is a directory tree at some absolute location: the top directory
\* "." and the subdirectories "a" and "b", each holding some of the files
\* below; a tree maps <<directory, file name>> to the size of the file.
Roots == {"/data/ds", "/mnt/copy/ds"}

Dirs == {".", "a", "b"}

\* the file names in the order sorted() puts them
FileNames == <<"x.jpg", "y.png">>

FileSizes == {10, 20}

Slots == Dirs \X {FileNames[k] : k \in 1..Len(FileNames)}

Trees == UNION {[S -> FileSizes] : S \in SUBSET Slots}

\* metadata_manager.py 34: os.walk goes top-down and yields the
\* subdirectories in the order the file system lists them
Walks == {<<".", "a", "b">>, <<".", "b", "a">>}

\* metadata_manager.py 35: sorted(files) of one directory
SortedFiles(tree, dir) ==
    SelectSeq(FileNames, LAMBDA name : <<dir, name>> \in DOMAIN tree)

\* metadata_manager.py 35-39: for each file of the directory the digest takes
\* os.path.join(root, file), root starting with the dataset path as given,
\* and the size
DirUpdates(dataset_path, tree, dir) ==
    [k \in 1..Len(SortedFiles(tree, dir)) |->
        <<<<dataset_path, dir, SortedFiles(tree, dir)[k]>>,
          tree[<<dir, SortedFiles(tree, dir)[k]>>]>>]

RECURSIVE WalkUpdates(_, _, _)
\* metadata_manager.py 33-42: the updates in the order of the walk; the
\* digest is taken to be collision free, so it is the sequence of its updates
WalkUpdates(dataset_path, tree, walk) ==
    IF walk = <<>> THEN <<>>
    ELSE DirUpdates(dataset_path, tree, Head(walk))
            \o WalkUpdates(dataset_path, tree, Tail(walk))

hash_md5(dataset_path, tree, walk) == <<"md5", WalkUpdates(dataset_path, tree, walk)>>

\* the trees one file away from tree: a file added, removed or resized
OneFileAway(tree) ==
    {[x \in DOMAIN tree \cup {slot} |-> IF x = slot THEN size ELSE tree[x]] :
        slot \in Slots \ DOMAIN tree, size \in FileSizes}
    \cup {[x \in DOMAIN tree \ {slot} |-> tree[x]] : slot \in DOMAIN tree}
    \cup {[tree EXCEPT ![y[1]] = y[2]] :
            y \in {z \in (DOMAIN tree) \X FileSizes : tree[z[1]] # z[2]}}

\* metadata_manager.py 23-42: two calls, on the same tree at any location
\* and in any order of enumeration, or on two trees one file apart
GetDatasetHash ==
    /\ call = NoCall
    /\ \E root_a \in Roots, tree_a \in Trees, walk_a \in Walks :
       \E root_b \in Roots, tree_b \in {tree_a} \cup OneFileAway(tree_a), walk_b \in Walks :
            call' = [op     |-> "get_dataset_hash",
                     a      |-> [root |-> root_a, tree |-> tree_a, walk |-> walk_a],
                     b      |-> [root |-> root_b, tree |-> tree_b, walk |-> walk_b],
                     hash_a |-> hash_md5(root_a, tree_a, walk_a),
                     hash_b |-> hash_md5(root_b, tree_b, walk_b)]

NextFingerprint ==
    GetDatasetHash /\ UNCHANGED <<fs, runs, pc, self, image_paths, errors_occurred,
                                  metadata, segmentation_info, futures, pending,
                                  exception, ret, exit_code, before, writes,
                                  listed, outcome>>

SpecFingerprint == Init /\ [][NextFingerprint]_vars

\* --------------------------------------------------------- output layout
\* Accepted invocations that differ in the features that write into a
\* subdirectory, under the three placement policies.
LayoutConfigs ==
    {[Config(1, bf, 1, FALSE, p[1], p[2]) EXCEPT
        !.size = sz, !.resize_mode = IF sz = <<>> THEN None ELSE "pad",
        !.save_intermediates = si, !.visualize_segmentation = viz,
        !.crop_by_class = cc, !.remove_background = rb] :
        bf \in BOOLEAN, p \in Placements, sz \in {<<>>, <<256>>},
        si \in BOOLEAN, viz \in BOOLEAN, cc \in BOOLEAN,
        rb \in BOOLEAN}

\* path_manager.py 26-55: the directories setup_paths makes, named relative
\* to the run directory ("." is the run directory itself)
makedirs(config) ==
    {".", "resized", "masks", "seg_viz", "crops", "logs"}
        \cup (IF config.remove_background /\ config.save_intermediates
              THEN {"crops_bkgd_removed", "full_bkgd_removed"} ELSE {})

\* path_manager.py 4-58
SetupPaths ==
    /\ call = NoCall
    /\ \E config \in {c \in LayoutConfigs : Validate(c) = "ok"} :
         call' = [op         |-> "setup_paths",
                  config     |-> config,
                  output_dir |-> Segmenter(config).output_dir,
                  dirs       |-> makedirs(config)]

NextLayout ==
    SetupPaths /\ UNCHANGED <<fs, runs, pc, self, image_paths, errors_occurred,
                              metadata, segmentation_info, futures, pending,
                              exception, ret, exit_code, before, writes, listed,
                              outcome>>

SpecLayout == Init /\ [][NextLayout]_vars

\* ------------------------------------------------ background compositing
\* An image is a row of pixels, a pixel three 8-bit channels; a mask is a row
\* of 8-bit values of the same length.
UINT8_MAX == 255

\* black, white, a grey and two colours (blue, green, red channels)
Pixels ==
    {<<0, 0, 0>>, <<UINT8_MAX, UINT8_MAX, UINT8_MAX>>, <<100, 100, 100>>,
     <<100, 0, UINT8_MAX>>, <<0, 100, 1>>}

Images == [1..MaxPixels -> Pixels]

MaskValues == {0, 1, UINT8_MAX}

Masks == [1..MaxPixels -> MaskValues]

\* cli.py 73 and image_processor.py 297-299: the colour option, None when
\* it is not given
BackgroundColors == {None, "black", "white"}

\* image_processor.py 297-306: a solid image of the shape of the source
full(image, bg_color) ==
    [x \in DOMAIN image |->
        IF bg_color = "white"
        THEN <<UINT8_MAX, UINT8_MAX, UINT8_MAX>>
        ELSE <<0, 0, 0>>]

\* the mask made binary at half of the range
mask_binary_half(mask) ==
    [x \in DOMAIN mask |-> IF mask[x] > 127 THEN UINT8_MAX ELSE 0]

\* image_processor.py 312
mask_binary(mask) ==
    [x \in DOMAIN mask |-> IF mask[x] > 0 THEN UINT8_MAX ELSE 0]

\* cv2.bitwise_and(src, src, mask=m): the source where m is not zero, zero
\* elsewhere
bitwise_and(src, m) ==
    [x \in DOMAIN src |-> IF m[x] # 0 THEN src[x] ELSE <<0, 0, 0>>]

\* cv2.bitwise_not on 8-bit values
bitwise_not(m) == [x \in DOMAIN m |-> UINT8_MAX - m[x]]

\* cv2.add: the sum of each channel, saturated at the top of the range
add(src1, src2) ==
    [x \in DOMAIN src1 |->
        [c \in 1..3 |->
            IF src1[x][c] + src2[x][c] > UINT8_MAX
            THEN UINT8_MAX ELSE src1[x][c] + src2[x][c]]]

\* image_processor.py 285-327, for the single-channel mask its callers pass
remove_background(image, mask, bg_color) ==
    add(bitwise_and(image, mask_binary(mask)),
        bitwise_and(full(image, bg_color), bitwise_not(mask_binary(mask))))

RemoveBackground ==
    /\ call = NoCall
    /\ \E image \in Images, mask \in Masks, bg_color \in BackgroundColors :
         call' = [op       |-> "remove_background",
                  image    |-> image,
                  mask     |-> mask,
                  bg_color |-> bg_color,
                  final    |-> remove_background(image, mask, bg_color)]

NextComposite ==
    RemoveBackground /\ UNCHANGED <<fs, runs, pc, self, image_paths,
                                    errors_occurred, metadata, segmentation_info,
                                    futures, pending, exception, ret, exit_code,
                                    before, writes, listed, outcome>>

SpecComposite == Init /\ [][NextComposite]_vars

\* -------------------------------------------------------- crops by class
\* A class mask is one row of class ids; the image under it has a pixel of
\* its own at every position.
ClassMasks == [1..MaxWidth -> DOMAIN CLASSES]

RowImage == [x \in 1..MaxWidth |-> <<x, 100, UINT8_MAX>>]

\* image_processor.py 241
class_mask(mask, class_id) ==
    [x \in DOMAIN mask |-> IF mask[x] = class_id THEN UINT8_MAX ELSE 0]

RECURSIVE RunLength(_, _)
\* the extent of the connected component that starts at x
RunLength(m, x) ==
    IF x > Len(m) \/ m[x] = 0 THEN 0 ELSE 1 + RunLength(m, x + 1)

\* image_processor.py 244 and 251: cv2.findContours with RETR_EXTERNAL gives
\* one contour per connected component, here by its bounding rectangle
\* <<x, w>>; OpenCV fixes no order, it is listed left to right or right to
\* left
findContours(m, reversed) ==
    LET starts  == SelectSeq([x \in 1..Len(m) |-> x],
                             LAMBDA x : m[x] # 0 /\ (x = 1 \/ m[x - 1] = 0))
        ordered == IF reversed
                   THEN [k \in 1..Len(starts) |-> starts[Len(starts) + 1 - k]]
                   ELSE starts
    IN  [k \in 1..Len(ordered) |-> <<ordered[k], RunLength(m, ordered[k])>>]

\* image_processor.py 265-266 and 278: the directory, the class, the path of
\* the image relative to the dataset and the class again; nothing in it names
\* the component
crop_save_path(dir, class_name, relative_path) ==
    <<dir, class_name, relative_path, class_name>>

\* path_manager.py 47-51: the attribute is set only on this condition
HasCropsBkgdRemovedDir(config) ==
    config.remove_background /\ config.save_intermediates

RECURSIVE SaveContours(_, _, _, _, _, _)
\* image_processor.py 250-283: crop and write each contour in turn; state is
\* the files written so far and whether an exception has left the loop
SaveContours(state, config, image, m, class_name, contours) ==
    IF contours = <<>> \/ state.raised THEN state
    ELSE LET x       == Head(contours)[1]
             w       == Head(contours)[2]
             cropped == SubSeq(image, x, x + w - 1)
             cmask   == SubSeq(m, x, x + w - 1)
             saved   == Put(state.files,
                            crop_save_path("crops", class_name, "img"), cropped)
         IN  IF ~config.remove_background
             THEN SaveContours([state EXCEPT !.files = saved],
                               config, image, m, class_name, Tail(contours))
             ELSE IF ~HasCropsBkgdRemovedDir(config)
             THEN [files |-> saved, raised |-> TRUE]
             ELSE SaveContours(
                    [state EXCEPT !.files =
                        Put(saved,
                            crop_save_path("crops_bkgd_removed", class_name, "img"),
                            remove_background(cropped, cmask,
                                              BackgroundColor(config)))],
                    config, image, m, class_name, Tail(contours))

RECURSIVE SaveClasses(_, _, _, _, _, _)
\* image_processor.py 236-248: the classes in the order of the vocabulary,
\* the background left out
SaveClasses(state, config, image, mask, class_id, reversed) ==
    IF class_id \notin DOMAIN CLASSES THEN state
    ELSE SaveClasses(
            SaveContours(state, config, image, class_mask(mask, class_id),
                         CLASSES[class_id],
                         findContours(class_mask(mask, class_id), reversed)),
            config, image, mask, class_id + 1, reversed)

\* image_processor.py 225-283
crop_and_save_by_class(config, image, mask, reversed) ==
    SaveClasses([files |-> Empty, raised |-> FALSE], config, image, mask, 1, reversed)

CropConfigs ==
    {[Config(1, FALSE, 1, FALSE, None, None) EXCEPT
        !.crop_by_class = TRUE, !.remove_background = rb,
        !.save_intermediates = si] : rb \in BOOLEAN, si \in BOOLEAN}

CropAndSaveByClass ==
    /\ call = NoCall
    /\ \E config \in CropConfigs, mask \in ClassMasks, reversed \in BOOLEAN :
         call' = [op     |-> "crop_and_save_by_class",
                  config |-> config,
                  mask   |-> mask,
                  result |-> crop_and_save_by_class(config, RowImage, mask, reversed)]

NextCrops ==
    CropAndSaveByClass /\ UNCHANGED <<fs, runs, pc, self, image_paths,
                                      errors_occurred, metadata, segmentation_info,
                                      futures, pending, exception, ret, exit_code,
                                      before, writes, listed, outcome>>

SpecCrops == Init /\ [][NextCrops]_vars

\* ------------------------------------------------------------ scan-runs
\* What scan_runs can find at <run_dir>/metadata.json: no file, a file that
\* is not JSON (cut short, say), JSON without one of the three sections the
\* scan reads, or a descriptor as process_dataset writes it.
Sections == {"run_status", "dataset", "run_parameters"}

DescriptorFiles ==
    {[exists |-> FALSE, parses |-> FALSE, sections |-> {}, completed |-> FALSE],
     [exists |-> TRUE, parses |-> FALSE, sections |-> {}, completed |-> FALSE]}
    \cup {[exists |-> TRUE, parses |-> TRUE, sections |-> Sections \ {x},
           completed |-> FALSE] : x \in Sections}
    \cup {[exists |-> TRUE, parses |-> TRUE, sections |-> Sections,
           completed |-> c] : c \in BOOLEAN}

RunDirs == UNION {[1..n -> DescriptorFiles] : n \in 1..MaxRunDirs}

\* run_scanner.py 57-104: one pass of the loop; it adds a row, or an
\* exception leaves it (json.load on text that is not JSON, a subscript on a
\* section that is not there)
scan_row(idx, file) ==
    IF ~file.exists
        THEN [row |-> <<idx, "Missing metadata.json">>, raised |-> None]
    ELSE IF ~file.parses
        THEN [row |-> <<>>, raised |-> "JSONDecodeError"]
    ELSE IF "run_status" \notin file.sections
              \/ "dataset" \notin file.sections
              \/ "run_parameters" \notin file.sections
        THEN [row |-> <<>>, raised |-> "KeyError"]
    ELSE [row |-> <<idx, "uuid", IF file.completed THEN "Yes" ELSE "No">>,
          raised |-> None]

RECURSIVE scan_loop(_, _, _)
\* run_scanner.py 56-106: the rows in the order of the directories; the
\* table is printed after the loop, so not at all when an exception left it
scan_loop(run_dirs, idx, rows) ==
    IF idx > Len(run_dirs)
        THEN [rows |-> rows, raised |-> None, printed |-> TRUE]
    ELSE IF scan_row(idx, run_dirs[idx]).raised # None
        THEN [rows |-> rows, raised |-> scan_row(idx, run_dirs[idx]).raised,
              printed |-> FALSE]
    ELSE scan_loop(run_dirs, idx + 1, Append(rows, scan_row(idx, run_dirs[idx]).row))

scan_runs(run_dirs) == scan_loop(run_dirs, 1, <<>>)

ScanRuns ==
    /\ call = NoCall
    /\ \E run_dirs \in RunDirs :
         call' = [op       |-> "scan_runs",
                  run_dirs |-> run_dirs,
                  result   |-> scan_runs(run_dirs)]

NextScanRuns ==
    ScanRuns /\ UNCHANGED <<fs, runs, pc, self, image_paths, errors_occurred,
                            metadata, segmentation_info, futures, pending,
                            exception, ret, exit_code, before, writes, listed,
                            outcome>>

SpecScanRuns == Init /\ [][NextScanRuns]_vars

\* ------------------------------------------ full-image background removal
\* image_processor.py 56, 108-109: the foreground mask holds 0 or 255 at
\* every pixel
ForegroundMasks == [1..MaxPixels -> {0, UINT8_MAX}]

FullBackgroundConfigs ==
    {c \in {[Config(1, bf, 1, FALSE, None, None) EXCEPT
                !.crop_by_class = cc, !.remove_background = rb,
                !.save_intermediates = si, !.background_color = bc] :
                bf \in BOOLEAN, cc \in BOOLEAN, rb \in BOOLEAN,
                si \in BOOLEAN, bc \in BackgroundColors} :
        Validate(c) = "ok"}

\* path_manager.py 47-49: the only place that gives the Segmenter its
\* full_bkgd_removed_dir attribute
HasFullBkgdRemovedDir(config) ==
    config.remove_background /\ config.save_intermediates

\* image_processor.py 122: np.any
any(a) == \E x \in DOMAIN a : a[x] # 0

\* image_processor.py 120-135: the last step of process_image.  Reading the
\* attribute setup_paths did not set raises AttributeError, which leaves the
\* task as the except clause decides.
remove_full_background(config, image, foreground_mask) ==
    IF ~config.remove_bg_full \/ ~any(foreground_mask)
    THEN [files |-> Empty, raised |-> None]
    ELSE IF ~HasFullBkgdRemovedDir(config)
    THEN [files |-> Empty, raised |-> process_image_except("AttributeError")]
    ELSE [files  |-> (<<"full_bkgd_removed", "img_bg_removed.png">> :>
                        remove_background(image, foreground_mask,
                                          BackgroundColor(config))),
          raised |-> None]

RemoveFullBackground ==
    /\ call = NoCall
    /\ \E config \in FullBackgroundConfigs, image \in Images,
          foreground_mask \in ForegroundMasks :
         call' = [op              |-> "remove_full_background",
                  config          |-> config,
                  foreground_mask |-> foreground_mask,
                  result          |-> remove_full_background(config, image,
                                                            foreground_mask)]

NextFullBackground ==
    RemoveFullBackground /\ UNCHANGED <<fs, runs, pc, self, image_paths,
                                        errors_occurred, metadata,
                                        segmentation_info, futures, pending,
                                        exception, ret, exit_code, before,
                                        writes, listed, outcome>>

SpecFullBackground == Init /\ [][NextFullBackground]_vars

\* ---------------------------------------------------- the class mask
\* What the detector and the mask generator hand to get_mask_SAM for one
\* image: the class id of each detection in the detector's order, and one
\* mask for each of the first detections (none, some or all of them).  A
\* mask holds a score at every pixel, in hundredths, at the threshold or
\* just above it.
Scores == {50, 51}

Detections ==
    UNION {[1..n -> DOMAIN CLASSES] : n \in 1..MaxDetections}

PredMasks(n) ==
    UNION {[1..m -> [1..MaxPixels -> Scores]] : m \in 0..n}

\* image_processor.py 193: mask > 0.5 as 0 or 1
threshold(mask) == [x \in DOMAIN mask |-> IF mask[x] > 50 THEN 1 ELSE 0]

\* image_processor.py 196
mask_labeled(mask, pred_label) ==
    [x \in DOMAIN mask |-> threshold(mask)[x] * pred_label]

RECURSIVE label_masks(_, _, _, _)
\* image_processor.py 178-199: the detections in order; one without a mask
\* is passed over, and the labelled mask of the others is written over the
\* image mask wherever it is above 0
label_masks(img_mask, bboxes_labels, pred_masks, mask_idx) ==
    IF mask_idx > Len(bboxes_labels) THEN img_mask
    ELSE IF mask_idx > Len(pred_masks)
    THEN label_masks(img_mask, bboxes_labels, pred_masks, mask_idx + 1)
    ELSE LET labeled == mask_labeled(pred_masks[mask_idx], bboxes_labels[mask_idx])
         IN  label_masks([x \in DOMAIN img_mask |->
                              IF labeled[x] > 0 THEN labeled[x] ELSE img_mask[x]],
                         bboxes_labels, pred_masks, mask_idx + 1)

\* image_processor.py 137-205, the mask generator having answered
get_mask_SAM(bboxes_labels, pred_masks) ==
    IF Len(bboxes_labels) = 0 THEN None
    ELSE label_masks([x \in 1..MaxPixels |-> 0], bboxes_labels, pred_masks, 1)

GetMaskSAM ==
    /\ call = NoCall
    /\ \E bboxes_labels \in Detections :
         \E pred_masks \in PredMasks(Len(bboxes_labels)) :
            call' = [op            |-> "get_mask_SAM",
                     bboxes_labels |-> bboxes_labels,
                     masks         |-> pred_masks,
                     img_mask      |-> get_mask_SAM(bboxes_labels, pred_masks)]

NextClassMask ==
    GetMaskSAM /\ UNCHANGED <<fs, runs, pc, self, image_paths, errors_occurred,
                              metadata, segmentation_info, futures, pending,
                              exception, ret, exit_code, before, writes, listed,
                              outcome>>

SpecClassMask == Init /\ [][NextClassMask]_vars

\* ------------------------------------------------------------ properties
\* the output directory of the invocation in progress (or of the last one)
Dir == self.output_dir

\* the tasks of this invocation that raised, at whichever step
Failed == {i \in DOMAIN outcome : outcome[i] \in {"running", "masked", "recorded"}}

\* process_dataset has returned after the pool ran
Finalized == pc \in {"returned", "idle"} /\ writes = 2

\* the rows of the table at the run's table path
ExportedRows ==
    IF Dir \in DOMAIN segmentation_csv THEN Len(segmentation_csv[Dir]) ELSE 0

\* when the command started: a descriptor was at the run's metadata path, its
\* status said completed, and force is not set
CompletedBefore ==
    /\ Dir \in DOMAIN before[1]
    /\ before[1][Dir].completed
    /\ ~self.config.force

\* C1: when process_dataset finds a completed descriptor at the run's metadata
\* path and force is not set, it submits no task and leaves the descriptor,
\* the segmentation table and every mask of the earlier run as they were.
C1_SkipIsNoOp ==
    (image_paths # {} /\ CompletedBefore)
        => /\ fs = before
           /\ futures = Empty
           /\ outcome = Empty
           /\ writes = 0

C1_Witness ==
    /\ pc = "returned"
    /\ image_paths # {}
    /\ CompletedBefore
    /\ Dir \in DOMAIN masks
    /\ masks[Dir] # {}
    /\ Dir \in DOMAIN segmentation_csv

\* C2: whatever subset of the submitted tasks raises, every task still reaches
\* its end (returned or raised), none is left unstarted or cut short, and
\* process_dataset returns instead of raising.
C2_FailureIsolation ==
    /\ pc # "raised"
    /\ exception = None
    /\ (pc \in {"save", "finalize"} \/ (pc \in {"returned", "idle"} /\ writes > 0))
         => /\ DOMAIN futures = image_paths
            /\ DOMAIN outcome = image_paths
            /\ pending = {}
            /\ \A i \in image_paths : futures[i] \in {"returned", "ImageProcessingError"}

C2_Witness ==
    /\ pc = "returned"
    /\ ret = TRUE
    /\ \E i, j \in image_paths :
         /\ outcome[i] \in {"running", "masked", "recorded"}
         /\ outcome[j] = "ok"

\* C3: the descriptor persisted at finalization has completed = true exactly
\* when no task of this run raised, and a non-null error summary exactly when
\* at least one did.
C3_FinalStatus ==
    Finalized
        => /\ metadata_json[Dir].completed <=> (Failed = {})
           /\ (metadata_json[Dir].errors # None) <=> (Failed # {})

C3_Witness ==
    /\ Finalized
    /\ Failed # {}
    /\ Failed # image_paths
    /\ ~metadata_json[Dir].completed

\* C4: a run that reaches Running writes the descriptor exactly twice, first
\* with completed = false before any task is submitted and then at
\* finalization, and between the two writes the persisted descriptor says
\* completed = false.
C4_TwoWrites ==
    /\ writes \in 0..2
    /\ (writes = 0 => futures = Empty)
    /\ (writes = 1 => /\ pc \in {"submit", "drain", "save", "finalize"}
                      /\ ~metadata_json[Dir].completed)
    /\ (writes = 2 => pc \in {"returned", "idle"})
    /\ (pc \in {"returned", "idle"} /\ futures # Empty => writes = 2)

C4_Witness ==
    /\ writes = 1
    /\ pc = "drain"
    /\ Failed # {}
    /\ Dir \in DOMAIN before[1]
    /\ before[1][Dir].completed

\* C5: for a non-empty dataset process_dataset skips exactly when a descriptor
\* exists, says completed and force is not set; otherwise it writes the
\* descriptor with completed = false and submits one task per discovered image.
C5_SkipDecision ==
    (image_paths # {} /\ pc # "scanned")
        => IF CompletedBefore
           THEN writes = 0 /\ futures = Empty
           ELSE /\ writes >= 1
                /\ (pc # "submit" => DOMAIN futures = image_paths)
                /\ (writes = 1 => ~metadata_json[Dir].completed)

C5_Witness ==
    /\ pc = "drain"
    /\ Dir \in DOMAIN before[1]
    /\ ~before[1][Dir].completed
    /\ ~self.config.force
    /\ DOMAIN futures = image_paths

\* the descriptor d was written by a run of the same dataset fingerprint and
\* the same parameters as the invocation in progress
SameRun(d) ==
    /\ d.dataset_hash = self.parameters_for_hash.dataset_hash
    /\ d.run_parameters.remove_bg_full = self.config.remove_bg_full

\* C6: under every placement policy, a run is skipped only because of a
\* completed descriptor that a run of the same dataset fingerprint and the
\* same parameters wrote.
C6_SkipOnlySameRun ==
    (pc = "returned" /\ writes = 0 /\ image_paths # {})
        => SameRun(before[1][Dir])

\* C7: with N readable images of which exactly one task raises, at whichever
\* step, the final descriptor has num_images = N, completed = false, a
\* non-null error summary, and the table has N - 1 rows.
C7_OneFailure ==
    (Finalized /\ Cardinality(Failed) = 1
        /\ \A i \in DOMAIN outcome : outcome[i] # "unreadable")
        => /\ metadata_json[Dir].num_images = Cardinality(image_paths)
           /\ ~metadata_json[Dir].completed
           /\ metadata_json[Dir].errors # None
           /\ ExportedRows = Cardinality(image_paths) - 1

\* C8 as stated: whenever process_dataset returns after Running with at least
\* one failure, the table of this run has been exported to the table path.
C8_AlwaysExported ==
    (Finalized /\ Failed # {})
        => /\ Dir \in DOMAIN segmentation_csv
           /\ segmentation_csv[Dir] = segmentation_info

\* C8 amended: once the pool has drained, with or without failures, the table
\* is exported before the final descriptor is written whenever at least one
\* row was recorded; when no row was recorded the table path is left as it
\* was.
C8_ExportedWhenRows ==
    (pc = "finalize" \/ Finalized)
        => IF segmentation_info # <<>>
           THEN /\ Dir \in DOMAIN segmentation_csv
                /\ segmentation_csv[Dir] = segmentation_info
           ELSE segmentation_csv = before[2]

C8_Witness ==
    /\ pc = "returned"
    /\ Failed # {}
    /\ segmentation_info # <<>>
    /\ segmentation_csv[Dir] = segmentation_info

\* C9: when the scan finds no image, process_dataset returns the error outcome
\* without creating or changing a descriptor and without submitting a task,
\* whether or not a descriptor exists and whether or not force is set.
C9_EmptyDataset ==
    (self.config.dataset = 0)
        => /\ fs = before
           /\ futures = Empty
           /\ writes = 0
           /\ (pc = "returned" => ret = TRUE /\ errors_occurred)

C9_Witness ==
    /\ pc = "returned"
    /\ self.config.dataset = 0
    /\ self.config.force
    /\ Dir \in DOMAIN metadata_json
    /\ metadata_json[Dir].completed

\* C10: the command ends with a non-zero status when the dataset is empty and
\* when at least one task failed.
C10_ExitStatus ==
    (pc = "idle" /\ runs > 0 /\ (image_paths = {} \/ Failed # {}))
        => exit_code # 0

\* C11: for a fixed dataset, two accepted parameter sets that differ in exactly
\* one field of the run parameters (worker count included) have different run
\* identifiers.
C11_IdentifierSensitive ==
    call.op = "generate_uuid" => call.uuid_a # call.uuid_b

\* C17: every invocation whose resize target is not one or two positive
\* integers, or has a target without a mode, crop background removal without
\* crop-by-class, a background color without a removal flag, or both output
\* options, is rejected before the Segmenter is built and a directory made.
C17_FailFast ==
    (call.op = "main"
        /\ \/ call.args.size # <<>>
                /\ (Len(call.args.size) \notin {1, 2}
                     \/ \E k \in 1..Len(call.args.size) : call.args.size[k] <= 0)
           \/ call.args.size # <<>> /\ call.args.resize_mode = None
           \/ call.args.remove_background /\ ~call.args.crop_by_class
           \/ call.args.background_color # None
                /\ ~(call.args.remove_background \/ call.args.remove_bg_full)
           \/ call.args.custom_output_dir # None /\ call.args.output_dir # None)
        => /\ call.verdict # "ok"
           /\ ~call.constructed
           /\ call.output_dir = {}

\* C12: two walks give the same fingerprint exactly when the trees hold the
\* same set of (path relative to the root, size) pairs, whatever the order of
\* enumeration and wherever the root is.
C12_FingerprintOfContent ==
    call.op = "get_dataset_hash"
        => (call.hash_a = call.hash_b <=> call.a.tree = call.b.tree)

\* C13: after setup_paths the run directory, logs and masks exist, and each
\* of resized, seg_viz, crops and the two background-removed directories
\* exists only if its feature is enabled for the run.
C13_FeatureGatedLayout ==
    call.op = "setup_paths"
        => /\ {".", "logs", "masks"} \subseteq call.dirs
           /\ ("resized" \in call.dirs
                 => call.config.size # <<>> /\ call.config.save_intermediates)
           /\ ("seg_viz" \in call.dirs => call.config.visualize_segmentation)
           /\ ("crops" \in call.dirs => call.config.crop_by_class)
           /\ ("crops_bkgd_removed" \in call.dirs => call.config.remove_background)
           /\ ("full_bkgd_removed" \in call.dirs => call.config.remove_bg_full)

Components(c) ==
    {x \in DOMAIN call.mask :
        call.mask[x] = c /\ (x = 1 \/ call.mask[x - 1] # c)}

\* C14: with crop-by-class on, a class with k disjoint components in the mask
\* of an image ends with exactly k crops persisted for it, one per component.
C14_CropPerComponent ==
    (call.op = "crop_and_save_by_class" /\ ~call.result.raised)
        => \A c \in DOMAIN CLASSES \ {0} :
             Cardinality({path \in DOMAIN call.result.files :
                            path[1] = "crops" /\ path[2] = CLASSES[c]})
                = Cardinality(Components(c))

\* the descriptor file is as process_dataset writes it
WellFormed(file) == file.exists /\ file.parses /\ file.sections = Sections

\* C16: scan_runs prints one row per run directory; a directory whose
\* descriptor is missing or malformed gets a placeholder row, distinct from
\* the row of a readable descriptor, and the scan goes on to the end.
C16_ScanTolerant ==
    call.op = "scan_runs"
        => /\ call.result.raised = None
           /\ call.result.printed
           /\ Len(call.result.rows) = Len(call.run_dirs)
           /\ \A k \in 1..Len(call.run_dirs) :
                Len(call.result.rows[k]) = 3 <=> WellFormed(call.run_dirs[k])

\* every task of this invocation has come to its end
AllTasksDone ==
    /\ DOMAIN futures = image_paths
    /\ \A i \in image_paths : futures[i] \in {"returned", "ImageProcessingError"}

\* C18: in every interleaving, the step that exports the table and the step
\* that writes the final descriptor are taken only when every submitted task
\* has completed, with success or failure.
C18_FinalizeAfterTasks ==
    [][(segmentation_csv' # segmentation_csv \/ pc' \in {"finalize", "returned", "raised"})
         /\ futures # Empty
            => AllTasksDone /\ futures' = futures]_vars

C18_Witness ==
    /\ pc = "finalize"
    /\ self.num_workers = 2
    /\ Cardinality(image_paths) = 2
    /\ Failed # {}
    /\ ExportedRows = 1

\* the images whose task reached the record step
Recorded ==
    {i \in DOMAIN futures :
        \/ futures[i] \in {"recorded", "unmasked"}
        \/ i \in DOMAIN outcome
             /\ outcome[i] \in {"ok", "recorded", "mask_failed", "no_detection"}}

\* C19: for every worker count and interleaving, the row collection holds
\* exactly one row for each image whose task reached the record step, and
\* once the pool has drained the failure flag and the error summary are set
\* exactly when a task failed.
C19_Aggregator ==
    futures # Empty
        => /\ Len(segmentation_info) = Cardinality(Recorded)
           /\ {segmentation_info[k].image : k \in 1..Len(segmentation_info)} = Recorded
           /\ (pc \in {"save", "finalize"}
                 => /\ errors_occurred <=> Failed # {}
                    /\ metadata.errors # None <=> Failed # {})

C19_Witness ==
    /\ pc = "drain"
    /\ self.num_workers = 2
    /\ futures = (1 :> "recorded") @@ (2 :> "recorded")
    /\ [k \in 1..2 |-> segmentation_info[k].image] = <<2, 1>>

\* C20: when the mask generator fails for one image, its siblings complete
\* and the final descriptor carries a non-null error summary.
C20_MaskFailureRecorded ==
    (Finalized /\ \E i \in DOMAIN outcome : outcome[i] = "mask_failed")
        => /\ AllTasksDone
           /\ metadata_json[Dir].errors # None

\* the files of kind k (3: masks, 4: crops) this invocation added under the
\* run's directory
Added(k) ==
    (IF Dir \in DOMAIN fs[k] THEN fs[k][Dir] ELSE {})
        \ (IF Dir \in DOMAIN before[k] THEN before[k][Dir] ELSE {})

\* the images of this invocation that could not be read
Unreadable == {i \in DOMAIN outcome : outcome[i] = "unreadable"}

\* the rows the collection holds for image i
RowsOf(info, i) == {k \in 1..Len(info) : info[k].image = i}

\* C21: a task whose image cannot be loaded returns as a success with no
\* mask, no crop and no row for that image; a run whose only anomalies are
\* unreadable images is finalized as completed, with a null error summary
\* and num_images counting every discovered file.
C21_UnreadableImage ==
    /\ \A i \in Unreadable :
         /\ futures[i] = "returned"
         /\ i \notin Added(3) \cup Added(4)
         /\ RowsOf(segmentation_info, i) = {}
    /\ (Finalized /\ Unreadable # {} /\ Failed = {})
         => /\ metadata_json[Dir].completed
            /\ metadata_json[Dir].errors = None
            /\ metadata_json[Dir].num_images = Cardinality(image_paths)
            /\ Unreadable \subseteq image_paths

C21_Witness ==
    /\ Finalized
    /\ Cardinality(image_paths) = 2
    /\ Cardinality(Unreadable) = 1
    /\ Failed = {}
    /\ metadata_json[Dir].completed
    /\ metadata_json[Dir].num_images = 2

\* the images of this invocation for which the detector returned no box
NoDetection == {i \in DOMAIN outcome : outcome[i] = "no_detection"}

\* every class column of the row is 0
AllClassesAbsent(row) ==
    \A class_id \in DOMAIN CLASSES : row[CLASSES[class_id]] = 0

\* C22: when the detector returns no detection for any of the N readable
\* images of a dataset, the run is finalized as completed with num_images =
\* N, no mask and no crop is written for any image, and every image has a
\* row in the exported table whose class columns are all 0.
C22_ZeroDetections ==
    /\ \A i \in NoDetection :
         /\ i \notin Added(3) \cup Added(4)
         /\ Cardinality(RowsOf(segmentation_info, i)) = 1
         /\ \A k \in RowsOf(segmentation_info, i) :
              AllClassesAbsent(segmentation_info[k])
    /\ (Finalized /\ NoDetection = image_paths)
         => /\ metadata_json[Dir].completed
            /\ metadata_json[Dir].errors = None
            /\ metadata_json[Dir].num_images = Cardinality(image_paths)
            /\ Added(3) = {} /\ Added(4) = {}
            /\ Len(segmentation_csv[Dir]) = Cardinality(image_paths)
            /\ \A i \in image_paths :
                 \E k \in RowsOf(segmentation_csv[Dir], i) :
                     AllClassesAbsent(segmentation_csv[Dir][k])

C22_Witness ==
    /\ Finalized
    /\ Cardinality(image_paths) = 2
    /\ NoDetection = image_paths
    /\ metadata_json[Dir].completed
    /\ Len(segmentation_csv[Dir]) = 2

\* C23: whenever full-image background removal is enabled, a task on an
\* image whose foreground mask is not empty succeeds and leaves one
\* background-replaced image in the full-background-removed directory; when
\* the foreground mask is empty the step is skipped, nothing is written and
\* the task still succeeds.
C23_FullBackgroundRemoval ==
    (call.op = "remove_full_background" /\ call.config.remove_bg_full)
        => /\ call.result.raised = None
           /\ IF any(call.foreground_mask)
              THEN /\ Cardinality(DOMAIN call.result.files) = 1
                   /\ \A path \in DOMAIN call.result.files :
                        path[1] = "full_bkgd_removed"
              ELSE call.result.files = Empty

\* the detections of the call whose thresholded mask covers pixel x
Covering(x) ==
    {k \in 1..Len(call.masks) : threshold(call.masks[k])[x] = 1}

\* the last of a non-empty set of detections, in the detector's order
Last(detections) == CHOOSE k \in detections : \A l \in detections : l <= k

\* C24: in the class mask built for one image, a pixel covered by the
\* thresholded masks of two or more detections holds the class id of the
\* last of them in detector output order, whatever class ids the detections
\* have; a pixel covered by no detection holds 0.
C24_LastDetectionWins ==
    call.op = "get_mask_SAM"
        => \A x \in 1..MaxPixels :
             /\ Covering(x) = {} => call.img_mask[x] = 0
             /\ Cardinality(Covering(x)) >= 2
                  => call.img_mask[x] = call.bboxes_labels[Last(Covering(x))]

\* C25: after any sequence of process_dataset calls on one Segmenter, the
\* exported table holds at most one row for each discovered image: the rows
\* of an earlier call are not carried over into a later export.
C25_RowUniqueness ==
    (Finalized /\ Dir \in DOMAIN segmentation_csv)
        => \A i \in image_paths :
             Cardinality(RowsOf(segmentation_csv[Dir], i)) <= 1
====
